---- MODULE Spec2Model ----
(***************************************************************************)
(* Model of server.js, the backend of the online assessment portal: test   *)
(* management, answer scoring (/api/submitTest) and the proctoring         *)
(* evidence pipeline (/api/startExam, /api/uploadSnapshot,                 *)
(* /api/uploadVideoChunk, /api/uploadVideo, /admin/exam-media).            *)
(*                                                                         *)
(* A handler suspends at every `await`.  The ingestion handlers are        *)
(* therefore modelled in steps (request, completion of the Cloudinary      *)
(* upload, resumption of the handler, completion of the MongoDB save), so  *)
(* that several calls interleave.  Handlers whose awaits touch nothing     *)
(* another request can observe are one action.                             *)
(*                                                                         *)
(* Sizes are counted in MiB, Date.now() is the variable `now`, and the     *)
(* bytes a request carries are identified by the request's number.         *)
(* Numbers computed by the scorer are exact rationals (the rounding of     *)
(* IEEE doubles is not modelled).                                          *)
(***************************************************************************)
EXTENDS Integers, Sequences, FiniteSets

VARIABLES
  now,          \* Date.now()
  calls,        \* the ingestion requests received so far, in order of arrival
  blobs,        \* Cloudinary: asset path -> bytes stored there
  snapshots,    \* the Snapshot collection, in storage order
  videos,       \* the Video collection, in storage order
  sessions,     \* the ExamSession collection
  tests,        \* the Test collection
  submissions,  \* the Submission collection
  students,     \* the Student collection
  last          \* request and response of the last one-step handler

vars == <<now, calls, blobs, snapshots, videos, sessions, tests, submissions,
          students, last>>

(***************************************************************************)
(* Bounds of the model.                                                    *)
(***************************************************************************)
MaxCalls == 2
MaxClock == 2
MaxTests == 1
MaxQuestions == 2
MaxSubmissions == 1
MaxStudents == 1
MaxSessions == 1

(***************************************************************************)
(* Program constants.                                                      *)
(***************************************************************************)
FileSizeLimit == 10
BodyLimit == 200

\* A field the request does not carry (undefined).
Absent == -1

(***************************************************************************)
(* Strings the code rewrites are sequences of characters.                  *)
(***************************************************************************)
EmailA == <<"a", "@", "b", ".", "c">>
EmailB == <<"a", ".", "b", "@", "c">>
NoEmail == << >>

\* userEmail.replace(/[@.]/g, "_")
SafeEmail(email) ==
  [i \in 1..Len(email) |-> IF email[i] \in {"@", "."} THEN "_" ELSE email[i]]

\* decodeURIComponent, for the escapes %40 and %2E; any other escape is
\* malformed here (URIError), reported as the one-element result <<"URIError">>.
RECURSIVE DecodeURIComponent(_)
DecodeURIComponent(s) ==
  IF s = << >> THEN << >>
  ELSE IF s[1] # "%" THEN
         LET rest == DecodeURIComponent(Tail(s))
         IN  IF rest = <<"URIError">> THEN rest ELSE <<s[1]>> \o rest
  ELSE IF Len(s) < 3 THEN <<"URIError">>
  ELSE LET rest == DecodeURIComponent(SubSeq(s, 4, Len(s)))
           ch   == IF s[2] = "4" /\ s[3] = "0" THEN "@"
                   ELSE IF s[2] = "2" /\ s[3] = "E" THEN "."
                   ELSE "URIError"
       IN  IF ch = "URIError" \/ rest = <<"URIError">> THEN <<"URIError">>
           ELSE <<ch>> \o rest

(***************************************************************************)
(* Cloudinary.  An asset is named by its folder and public_id; an upload   *)
(* to a name that exists replaces the bytes stored there (the uploader's   *)
(* default, overwrite: true; the handlers pass no other).  secure_url      *)
(* names the asset.                                                        *)
(***************************************************************************)
AssetPath(root, user, name, t, i) ==
  [root |-> root, user |-> user, name |-> name, t |-> t, i |-> i]

NoPath == AssetPath("", << >>, "none", Absent, Absent)

\* The url of a failed upload: null.
NullUrl == AssetPath("", << >>, "null", Absent, Absent)

SecureUrl(path) == path

\* cloudinary.uploader.upload / upload_stream / upload_large, on success.
PutBlob(store, path, bytes) ==
  [p \in DOMAIN store \cup {path} |-> IF p = path THEN bytes ELSE store[p]]

\* folder and public_id of the snapshot of request c (public_id: uuidv4()).
SnapshotPath(c, userEmail) ==
  AssetPath("snapshots", SafeEmail(userEmail), "uuid", c, Absent)

\* `video_${Date.now()}_chunk_${chunkIndex}` under uploads/<safeEmail>_videos
ChunkPath(userEmail, clock, chunkIndex) ==
  AssetPath("uploads_videos", SafeEmail(userEmail), "video_chunk", clock, chunkIndex)

\* `video_${Date.now()}` under uploads/<safeEmail>_videos
VideoPath(userEmail, clock) ==
  AssetPath("uploads_videos", SafeEmail(userEmail), "video", clock, Absent)

\* folder "identity", public_id uuidv4(): a name no asset has yet.
IdentityPath(n) == AssetPath("identity", << >>, "uuid", n, Absent)

\* folder studentIdentities/<safeEmail>/photo, public_id uuidv4().
StudentPhotoPath(email, n) ==
  AssetPath("studentIdentities_photo", SafeEmail(email), "uuid", n, Absent)

BlobsIn(root) == {p \in DOMAIN blobs : p.root = root}

(***************************************************************************)
(* Mongoose.                                                               *)
(***************************************************************************)
\* Number(undefined) is NaN; a number is itself.
NotANumber == -2
ToNumber(v) == IF v = Absent THEN NotANumber ELSE v

\* The schema's `default: Date.now` applies to an undefined timestamp.
DefaultNow(timestamp, clock) == IF timestamp = Absent THEN clock ELSE timestamp

\* doc.save() of a new document: the document is appended to its collection.
Insert(coll, doc) == Append(coll, doc)

\* snap.save() / videoRecord.save(): one more evidence document.
RECURSIVE WithoutPair(_, _, _)
WithoutPair(coll, testId, userEmail) ==
  IF coll = << >> THEN << >>
  ELSE IF coll[1].testId = testId /\ coll[1].userEmail = userEmail
    THEN WithoutPair(Tail(coll), testId, userEmail)
  ELSE <<coll[1]>> \o WithoutPair(Tail(coll), testId, userEmail)
RECURSIVE WithoutChunk(_, _)
WithoutChunk(coll, doc) ==
  IF coll = << >> THEN << >>
  ELSE IF /\ coll[1].testId = doc.testId /\ coll[1].userEmail = doc.userEmail
          /\ coll[1].chunkIndex = doc.chunkIndex
    THEN WithoutChunk(Tail(coll), doc)
  ELSE <<coll[1]>> \o WithoutChunk(Tail(coll), doc)
UpsertByChunkIndex(coll, doc) == Append(WithoutChunk(coll, doc), doc)
UpsertEvidence(coll, doc) == Append(WithoutPair(coll, doc.testId, doc.userEmail), doc)
InsertEvidence(coll, doc) == Append(coll, doc)

\* A Video whose chunkIndex is NaN fails the Number cast: save() rejects.
VideoValid(doc) == doc.chunkIndex # NotANumber

\* Model.find(filter): the documents of the pair, in storage order.
RECURSIVE FindPair(_, _, _)
FindPair(coll, testId, userEmail) ==
  IF coll = << >> THEN << >>
  ELSE LET d == coll[1]
           rest == FindPair(Tail(coll), testId, userEmail)
       IN  IF d.testId = testId /\ d.userEmail = userEmail
           THEN <<d>> \o rest ELSE rest

\* .sort({ timestamp: 1 }): ascending by timestamp, ties in storage order.
RECURSIVE InsertByTimestamp(_, _)
InsertByTimestamp(d, sorted) ==
  IF sorted = << >> THEN <<d>>
  ELSE IF d.timestamp < sorted[1].timestamp THEN <<d>> \o sorted
  ELSE <<sorted[1]>> \o InsertByTimestamp(d, Tail(sorted))

StorageOrder(docs) == docs
RECURSIVE SortByTimestamp(_)
SortByTimestamp(docs) ==
  IF docs = << >> THEN << >>
  ELSE InsertByTimestamp(docs[Len(docs)], SortByTimestamp(SubSeq(docs, 1, Len(docs) - 1)))

(***************************************************************************)
(* Evidence ingestion.  A request's record holds the request fields, the   *)
(* handler's position (pc), the state of its Cloudinary upload, the        *)
(* document it constructs and its response.                                *)
(***************************************************************************)
Payload(form, size) == [form |-> form, size |-> size]

NoDoc == [_id |-> 0]

NewCall(kind, testId, userEmail, chunkIndex, timestamp, payload) ==
  [kind |-> kind, testId |-> testId, userEmail |-> userEmail,
   chunkIndex |-> chunkIndex, timestamp |-> timestamp, payload |-> payload,
   pc |-> "done", upload |-> "none", path |-> NoPath, doc |-> NoDoc,
   status |-> 0, success |-> FALSE]

\* The request ends before any upload, with an error response.
Rejected(call, status) == [call EXCEPT !.pc = "done", !.status = status]

\* The handler awaits the upload it has started.
Uploading(call, path) ==
  [call EXCEPT !.pc = "uploading", !.upload = "inflight", !.path = path]

\* uploadBase64ToCloudinary: data that does not start with "data:" is not
\* uploaded, the helper resolves to null at once.
UploadBase64Begins(payload) == payload.form = "dataurl"

\* bodyParser.json({ limit: "200mb" })
BodyTooLarge(payload) == payload.size > BodyLimit

\* multer({ limits: { fileSize: 10 * 1024 * 1024 } })
FileTooLarge(payload) == payload.form # "none" /\ payload.size > FileSizeLimit

\* POST /api/uploadSnapshot, up to `await uploadBase64ToCloudinary(...)`.
UploadSnapshotRequest(testId, userEmail, snapshot, timestamp) ==
  /\ Len(calls) < MaxCalls
  /\ LET c    == Len(calls) + 1
         call == NewCall("snapshot", testId, userEmail, Absent, timestamp, snapshot)
     IN  calls' = Append(calls,
           IF BodyTooLarge(snapshot) THEN Rejected(call, 413)
           ELSE IF testId = Absent \/ userEmail = NoEmail \/ snapshot.form = "none"
             THEN Rejected(call, 400)
           ELSE IF UploadBase64Begins(snapshot)
             THEN Uploading(call, SnapshotPath(c, userEmail))
           ELSE [call EXCEPT !.pc = "uploading"])
  /\ UNCHANGED <<now, blobs, snapshots, videos, sessions, tests, submissions,
                 students, last>>

\* POST /api/uploadVideoChunk, up to `await streamUpload()`.
UploadVideoChunkRequest(testId, userEmail, chunkIndex, timestamp, file) ==
  /\ Len(calls) < MaxCalls
  /\ LET call == NewCall("chunk", testId, userEmail, chunkIndex, timestamp, file)
     IN  calls' = Append(calls,
           IF FileTooLarge(file) THEN Rejected(call, 500)
           ELSE IF file.form = "none" \/ testId = Absent \/ userEmail = NoEmail
             THEN Rejected(call, 400)
           ELSE Uploading(call, ChunkPath(userEmail, now, chunkIndex)))
  /\ UNCHANGED <<now, blobs, snapshots, videos, sessions, tests, submissions,
                 students, last>>

\* POST /api/uploadVideo, up to `await cloudinary.uploader.upload_large(...)`;
\* `video` is a data: url, which upload_large hands to the uploader at once.
UploadVideoRequest(testId, userEmail, video, timestamp) ==
  /\ Len(calls) < MaxCalls
  /\ LET call == NewCall("video", testId, userEmail, Absent, timestamp, video)
     IN  calls' = Append(calls,
           IF BodyTooLarge(video) THEN Rejected(call, 413)
           ELSE IF video.form = "none" \/ testId = Absent \/ userEmail = NoEmail
             THEN Rejected(call, 400)
           ELSE Uploading(call, VideoPath(userEmail, now)))
  /\ UNCHANGED <<now, blobs, snapshots, videos, sessions, tests, submissions,
                 students, last>>

\* Cloudinary finishes the upload of request c: the asset is stored, or the
\* upload fails.
CloudinaryCompletes(c, ok) ==
  /\ c \in 1..Len(calls)
  /\ calls[c].upload = "inflight"
  /\ IF ok
       THEN /\ blobs' = PutBlob(blobs, calls[c].path, c)
            /\ calls' = [calls EXCEPT ![c].upload = "ok"]
       ELSE /\ blobs' = blobs
            /\ calls' = [calls EXCEPT ![c].upload = "failed"]
  /\ UNCHANGED <<now, snapshots, videos, sessions, tests, submissions,
                 students, last>>

\* `await`: the handler goes on once the promise of the upload has settled.
NotAwaited(call) == TRUE
UploadSettled(call) == call.upload # "inflight"

\* uploadBase64ToCloudinary returns result.secure_url, and null when the
\* upload threw or never began.
SnapUrl(call) == IF call.upload = "ok" THEN SecureUrl(call.path) ELSE NullUrl

\* new Snapshot({ testId, userEmail, snapshot: snapUrl, timestamp })
SnapshotDoc(c, call, clock) ==
  [_id |-> c, testId |-> call.testId, userEmail |-> call.userEmail,
   snapshot |-> SnapUrl(call), timestamp |-> DefaultNow(call.timestamp, clock)]

\* new Video({ ..., chunkIndex: Number(chunkIndex), timestamp: timestamp || Date.now() })
ChunkDoc(c, call, clock) ==
  [_id |-> c, testId |-> call.testId, userEmail |-> call.userEmail,
   videoUrl |-> SecureUrl(call.path), chunkIndex |-> ToNumber(call.chunkIndex),
   timestamp |-> IF call.timestamp = Absent THEN clock ELSE call.timestamp]

\* new Video({ testId, userEmail, videoUrl: uploadResponse.secure_url, timestamp })
VideoDoc(c, call, clock) ==
  [_id |-> c, testId |-> call.testId, userEmail |-> call.userEmail,
   videoUrl |-> SecureUrl(call.path), chunkIndex |-> Absent,
   timestamp |-> DefaultNow(call.timestamp, clock)]

\* The handler of request c resumes after its upload: a rejected
\* upload_stream / upload_large throws into the catch block (500); otherwise
\* the document is constructed and `await doc.save()` begins.
HandlerResumes(c) ==
  /\ c \in 1..Len(calls)
  /\ calls[c].pc = "uploading"
  /\ UploadSettled(calls[c])
  /\ LET call == calls[c]
     IN  calls' = [calls EXCEPT ![c] =
           IF call.kind = "snapshot"
             THEN [call EXCEPT !.pc = "saving", !.doc = SnapshotDoc(c, call, now)]
           ELSE IF call.upload # "ok"
             THEN [call EXCEPT !.pc = "done", !.status = 500]
           ELSE IF call.kind = "chunk"
             THEN [call EXCEPT !.pc = "saving", !.doc = ChunkDoc(c, call, now)]
           ELSE [call EXCEPT !.pc = "saving", !.doc = VideoDoc(c, call, now)]]
  /\ UNCHANGED <<now, blobs, snapshots, videos, sessions, tests, submissions,
                 students, last>>

\* MongoDB finishes the save of request c and the handler responds: the
\* document is stored (200), or save() rejects (500).
SaveCompletes(c, ok) ==
  /\ c \in 1..Len(calls)
  /\ calls[c].pc = "saving"
  /\ LET call   == calls[c]
         stored == ok /\ (call.kind = "snapshot" \/ VideoValid(call.doc))
     IN  /\ calls' = [calls EXCEPT ![c].pc = "done",
                                   ![c].status = IF stored THEN 200 ELSE 500,
                                   ![c].success = stored]
         /\ snapshots' = IF stored /\ call.kind = "snapshot"
                           THEN InsertEvidence(snapshots, call.doc) ELSE snapshots
         /\ videos' = IF stored /\ call.kind # "snapshot"
                        THEN InsertEvidence(videos, call.doc) ELSE videos
  /\ UNCHANGED <<now, blobs, sessions, tests, submissions, students, last>>

\* Time passes.
Tick ==
  /\ now < MaxClock
  /\ now' = now + 1
  /\ UNCHANGED <<calls, blobs, snapshots, videos, sessions, tests, submissions,
                 students, last>>

(***************************************************************************)
(* Session tracker and exam media query.                                   *)
(***************************************************************************)
\* server.js declares the models Student, User, Test, Submission, Snapshot,
\* Video and VisibilityEvent; no ExamSession model is declared, so
\* `new ExamSession(...)` throws a ReferenceError.
ExamSessionDefined == FALSE

\* POST /api/startExam
StartExam(testId, userEmail, userName, identityPhoto, timestamp, cloudOk, saveOk) ==
  /\ Cardinality(BlobsIn("identity")) + Len(sessions) < MaxSessions
  /\ LET req == [testId |-> testId, userEmail |-> userEmail, userName |-> userName,
                 identityPhoto |-> identityPhoto, timestamp |-> timestamp]
         uploaded == UploadBase64Begins(identityPhoto) /\ cloudOk
         path == IdentityPath(Cardinality(BlobsIn("identity")) + 1)
         photoUrl == IF uploaded THEN SecureUrl(path) ELSE NullUrl
         session == [_id |-> Len(sessions) + 1, testId |-> testId,
                     userEmail |-> userEmail, userName |-> userName,
                     identityPhoto |-> photoUrl,
                     timestamp |-> DefaultNow(timestamp, now)]
         resp(status, ok, id) ==
           [op |-> "startExam", req |-> req, status |-> status, success |-> ok,
            photoUrl |-> photoUrl, sessionId |-> id]
     IN  IF BodyTooLarge(identityPhoto)
           THEN /\ last' = resp(413, FALSE, 0)
                /\ UNCHANGED <<blobs, sessions>>
         ELSE IF testId = Absent \/ userEmail = NoEmail \/ userName = ""
                 \/ identityPhoto.form = "none"
           THEN /\ last' = resp(400, FALSE, 0)
                /\ UNCHANGED <<blobs, sessions>>
         ELSE /\ blobs' = IF uploaded THEN PutBlob(blobs, path, 0) ELSE blobs
              /\ IF ExamSessionDefined /\ saveOk
                   THEN /\ sessions' = Insert(sessions, session)
                        /\ last' = resp(200, TRUE, session._id)
                   ELSE /\ sessions' = sessions
                        /\ last' = resp(500, FALSE, 0)
  /\ UNCHANGED <<now, calls, snapshots, videos, tests, submissions, students>>

\* GET /admin/exam-media/:testId/:email
GetExamMedia(testId, email) ==
  /\ LET decodedEmail == DecodeURIComponent(email)
         req == [testId |-> testId, email |-> email]
         snaps == SortByTimestamp(FindPair(snapshots, testId, decodedEmail))
         vids  == SortByTimestamp(FindPair(videos, testId, decodedEmail))
     IN  IF decodedEmail = <<"URIError">>
           THEN last' = [op |-> "examMedia", req |-> req, status |-> 500,
                         success |-> FALSE]
           ELSE last' = [op |-> "examMedia", req |-> req, status |-> 200,
                         success |-> TRUE, snapshots |-> snaps, videoDocs |-> vids,
                         videos |-> [i \in 1..Len(vids) |-> vids[i].videoUrl]]
  /\ UNCHANGED <<now, calls, blobs, snapshots, videos, sessions, tests,
                 submissions, students>>

(***************************************************************************)
(* JavaScript values of the scorer.  A value is a record of its type and,  *)
(* for a number, the exact rational n/d in lowest terms; a "string" is the *)
(* decimal numeral of n, a "text" a string that is no numeral.             *)
(***************************************************************************)
JsValue(t, n, d) == [t |-> t, n |-> n, d |-> d]
Num(k) == JsValue("number", k, 1)
Str(k) == JsValue("string", k, 1)
Text == JsValue("text", 0, 1)
Undefined == JsValue("undefined", 0, 1)
NaN == JsValue("nan", 0, 1)
Infinity == JsValue("infinity", 0, 1)

RECURSIVE Gcd(_, _)
Gcd(a, b) == IF b = 0 THEN a ELSE Gcd(b, a % b)

Ratio(n, d) == LET g == Gcd(n, d) IN JsValue("number", n \div g, d \div g)

\* a / b on counts: 0 / 0 is NaN, k / 0 is Infinity.
Divide(a, b) ==
  IF b = 0 THEN (IF a = 0 THEN NaN ELSE Infinity) ELSE Ratio(a, b)

\* v * k, k > 0
Times(v, k) == IF v.t = "number" THEN Ratio(v.n * k, v.d) ELSE v

\* a === b; a == b additionally converts a numeral to its number.
LooseEquals(a, b) ==
  /\ a.t \in {"number", "string"} /\ b.t \in {"number", "string"}
  /\ a.n = b.n /\ a.d = b.d
StrictEquals(a, b) == a.t = b.t /\ a.t # "nan" /\ a.n = b.n /\ a.d = b.d

\* Mongoose's cast of a value to the schema type Number: a numeral becomes
\* its number, undefined stays unset, NaN and a string that is no numeral
\* are cast errors, which fail the validation of save().
NumberCastsAlways(v) == TRUE
NumberCasts(v) == v.t \notin {"nan", "text"}
CastNumber(v) == IF v.t = "string" THEN Num(v.n) ELSE v

\* { type: Number, required: true }
RequiredNever(v) == TRUE
Required(v) == v.t # "undefined"

(***************************************************************************)
(* Test management.                                                        *)
(***************************************************************************)
Question(correctAnswer) ==
  [question |-> "q", options |-> <<"x", "y">>, correctAnswer |-> correctAnswer,
   explanation |-> ""]

\* Validation of the questions of a Test on save().
QuestionsValid(questions) ==
  \A i \in 1..Len(questions) :
    NumberCasts(questions[i].correctAnswer) /\ Required(questions[i].correctAnswer)

\* new Test({ title, subject, duration, questions })
TestDoc(id, title, subject, questions) ==
  [_id |-> id, title |-> title, subject |-> subject, resultsDeclared |-> FALSE,
   questions |-> [i \in 1..Len(questions) |->
                    [questions[i] EXCEPT !.correctAnswer = CastNumber(@)]]]

\* POST /admin/add-test
AddTest(title, subject, isArray, questions, saveOk) ==
  /\ Len(tests) < MaxTests
  /\ LET t == TestDoc(Len(tests) + 1, title, subject, questions)
         req == [title |-> title, subject |-> subject, isArray |-> isArray,
                 questions |-> questions]
         resp(status, ok, id) ==
           [op |-> "addTest", req |-> req, status |-> status, success |-> ok,
            testId |-> id]
     IN  IF title = "" \/ subject = "" \/ ~isArray
           THEN /\ last' = resp(400, FALSE, 0)
                /\ tests' = tests
         ELSE IF QuestionsValid(questions) /\ saveOk
           THEN /\ tests' = Insert(tests, t)
                /\ last' = resp(201, TRUE, t._id)
         ELSE /\ last' = resp(500, FALSE, 0)
              /\ tests' = tests
  /\ UNCHANGED <<now, calls, blobs, snapshots, videos, sessions, submissions,
                 students>>

\* Model.findById(id): the position of the document, 0 when there is none.
FindById(coll, id) ==
  IF \E i \in 1..Len(coll) : coll[i]._id = id
    THEN CHOOSE i \in 1..Len(coll) : coll[i]._id = id
    ELSE 0

\* PUT /admin/tests/:id/declareResults
DeclareResults(id, resultsDeclared) ==
  /\ LET i == FindById(tests, id)
         resp(status, ok) ==
           [op |-> "declareResults", req |-> [id |-> id, resultsDeclared |-> resultsDeclared],
            status |-> status, success |-> ok]
     IN  IF i = 0
           THEN /\ last' = resp(404, FALSE)
                /\ tests' = tests
           ELSE /\ tests' = [tests EXCEPT ![i].resultsDeclared = resultsDeclared]
                /\ last' = resp(200, TRUE)
  /\ UNCHANGED <<now, calls, blobs, snapshots, videos, sessions, submissions,
                 students>>

(***************************************************************************)
(* Answer scoring.  `answers` is the mapping of the request: entries from  *)
(* question positions (from 0) to selected values.                         *)
(***************************************************************************)
\* typeof answers[i] !== "undefined" ? answers[i] : undefined
Selected(answers, i) == IF i \in DOMAIN answers THEN answers[i] ELSE Undefined

\* selected === q.correctAnswer
IsCorrect(answers, questions, i) ==
  StrictEquals(Selected(answers, i), questions[i + 1].correctAnswer)

\* test.questions.map((q, i) => ...)
AnswerAnalysis(answers, questions) ==
  [k \in 1..Len(questions) |->
     [question |-> questions[k].question,
      options |-> questions[k].options,
      selectedOption |-> Selected(answers, k - 1),
      correctOption |-> questions[k].correctAnswer,
      isCorrect |-> IsCorrect(answers, questions, k - 1),
      explanation |-> questions[k].explanation]]

\* correctCount after the map
CorrectCount(answers, questions) ==
  Cardinality({i \in 0..(Len(questions) - 1) : IsCorrect(answers, questions, i)})

\* (correctCount / test.questions.length) * 100
Score(correctCount, total) == Times(Divide(correctCount, total), 100)

\* new Submission({ ... }): the values after the schema's casts (of the
\* graded answers, the fields the scorer computes)
SubmissionDoc(id, testId, userEmail, userName, answers, questions) ==
  LET correctCount == CorrectCount(answers, questions)
      analysis == AnswerAnalysis(answers, questions)
  IN  [_id |-> id, userEmail |-> userEmail, userName |-> userName, testId |-> testId,
       score |-> Score(correctCount, Len(questions)),
       totalQuestions |-> Len(questions),
       correctCount |-> correctCount,
       wrongCount |-> Len(questions) - correctCount,
       answers |-> [k \in 1..Len(analysis) |->
                      [analysis[k] EXCEPT !.selectedOption = CastNumber(@)]]]

\* Validation of a Submission on save(): every Number path must cast.
SubmissionValid(doc) ==
  /\ NumberCasts(doc.score)
  /\ \A k \in 1..Len(doc.answers) : NumberCasts(doc.answers[k].selectedOption)

\* POST /api/submitTest
SubmitTest(testId, given, answers, userEmail, userName, saveOk) ==
  /\ Len(submissions) < MaxSubmissions
  /\ LET i == FindById(tests, testId)
         req == [testId |-> testId, given |-> given, answers |-> answers,
                 userEmail |-> userEmail, userName |-> userName]
         doc == SubmissionDoc(Len(submissions) + 1, testId, userEmail, userName,
                              answers, tests[i].questions)
         fail(status) ==
           [op |-> "submitTest", req |-> req, status |-> status, success |-> FALSE]
     IN  IF testId = Absent \/ ~given \/ userEmail = NoEmail \/ userName = ""
           THEN /\ last' = fail(400)
                /\ submissions' = submissions
         ELSE IF i = 0
           THEN /\ last' = fail(404)
                /\ submissions' = submissions
         ELSE IF SubmissionValid(doc) /\ saveOk
           THEN /\ submissions' = Insert(submissions, doc)
                /\ last' = [op |-> "submitTest", req |-> req, status |-> 200,
                            success |-> TRUE, score |-> doc.score,
                            correctCount |-> doc.correctCount,
                            wrongCount |-> doc.wrongCount, submissionId |-> doc._id]
         ELSE /\ last' = fail(500)
              /\ submissions' = submissions
  /\ UNCHANGED <<now, calls, blobs, snapshots, videos, sessions, tests, students>>

(***************************************************************************)
(* Student records.                                                        *)
(***************************************************************************)
\* POST /api/studentDetails; `complete`: the required profile fields other
\* than email and photo are all present.
StudentDetails(email, complete, photo, cloudOk, saveOk) ==
  /\ Cardinality(BlobsIn("studentIdentities_photo")) + Len(students) < MaxStudents
  /\ LET uploaded == UploadBase64Begins(photo) /\ cloudOk
         path == StudentPhotoPath(email, Cardinality(BlobsIn("studentIdentities_photo")) + 1)
         student == [_id |-> Len(students) + 1, email |-> email,
                     photo |-> IF uploaded THEN SecureUrl(path) ELSE NullUrl,
                     testsTaken |-> FALSE]
         unique == \A k \in 1..Len(students) : students[k].email # email
         resp(status, ok) ==
           [op |-> "studentDetails", req |-> [email |-> email, complete |-> complete,
                                              photo |-> photo],
            status |-> status, success |-> ok]
     IN  IF BodyTooLarge(photo)
           THEN /\ last' = resp(413, FALSE)
                /\ UNCHANGED <<blobs, students>>
         ELSE IF ~complete \/ email = NoEmail \/ photo.form = "none"
           THEN /\ last' = resp(400, FALSE)
                /\ UNCHANGED <<blobs, students>>
         ELSE /\ blobs' = IF uploaded THEN PutBlob(blobs, path, 0) ELSE blobs
              /\ IF unique /\ saveOk
                   THEN /\ students' = Insert(students, student)
                        /\ last' = resp(200, TRUE)
                   ELSE /\ students' = students
                        /\ last' = resp(500, FALSE)
  /\ UNCHANGED <<now, calls, snapshots, videos, sessions, tests, submissions>>

\* PUT /api/updateTestsTaken/:email
UpdateTestsTaken(email, testsTaken) ==
  /\ LET found == {k \in 1..Len(students) : students[k].email = email}
     IN  /\ students' = [k \in 1..Len(students) |->
                           IF k \in found /\ \A j \in found : k <= j
                             THEN [students[k] EXCEPT !.testsTaken = testsTaken]
                             ELSE students[k]]
         /\ last' = [op |-> "updateTestsTaken",
                     req |-> [email |-> email, testsTaken |-> testsTaken],
                     status |-> 200, success |-> TRUE]
  /\ UNCHANGED <<now, calls, blobs, snapshots, videos, sessions, tests, submissions>>

(***************************************************************************)
(* The evidence pipeline: the requests the model draws from.               *)
(***************************************************************************)
Timestamps == {Absent} \cup (1..MaxClock)

SmallImage == Payload("dataurl", 1)
RawText == Payload("raw", 1)
SmallFile == Payload("raw", 1)
SmallVideo == Payload("dataurl", 1)
NoPayload == Payload("none", 0)

\* { testId, userEmail, snapshot, timestamp } of /api/uploadSnapshot
SnapshotRequests ==
  [testId : {1}, userEmail : {EmailA}, timestamp : Timestamps,
   payload : {SmallImage, RawText}]
  \cup [testId : {1}, userEmail : {EmailB}, timestamp : {Absent}, payload : {SmallImage}]
  \cup [testId : {Absent, 2}, userEmail : {EmailA}, timestamp : {Absent},
        payload : {SmallImage}]
  \cup [testId : {1}, userEmail : {NoEmail}, timestamp : {Absent}, payload : {SmallImage}]
  \cup [testId : {1}, userEmail : {EmailA}, timestamp : {Absent},
        payload : {NoPayload, Payload("dataurl", BodyLimit + 1)}]

\* { testId, userEmail, chunkIndex, timestamp } and the file of /api/uploadVideoChunk
ChunkRequests ==
  [testId : {1}, userEmail : {EmailA}, chunkIndex : {0, 1}, timestamp : Timestamps,
   payload : {SmallFile}]
  \cup [testId : {1}, userEmail : {EmailB}, chunkIndex : {0, Absent},
        timestamp : {Absent}, payload : {SmallFile}]
  \cup [testId : {Absent, 2}, userEmail : {EmailA}, chunkIndex : {0},
        timestamp : {Absent}, payload : {SmallFile}]
  \cup [testId : {1}, userEmail : {NoEmail}, chunkIndex : {0}, timestamp : {Absent},
        payload : {SmallFile}]
  \cup [testId : {1}, userEmail : {EmailA}, chunkIndex : {0}, timestamp : {Absent},
        payload : {NoPayload, Payload("raw", FileSizeLimit),
                   Payload("raw", FileSizeLimit + 1)}]

\* { testId, userEmail, video, timestamp } of /api/uploadVideo
VideoRequests ==
  [testId : {1}, userEmail : {EmailA}, timestamp : Timestamps, payload : {SmallVideo}]
  \cup [testId : {Absent, 2}, userEmail : {EmailA}, timestamp : {Absent},
        payload : {SmallVideo}]
  \cup [testId : {1}, userEmail : {NoEmail}, timestamp : {Absent}, payload : {SmallVideo}]
  \cup [testId : {1}, userEmail : {EmailA}, timestamp : {Absent},
        payload : {NoPayload, Payload("dataurl", FileSizeLimit + 1),
                   Payload("dataurl", BodyLimit + 1)}]

\* the body of /api/startExam
StartExamRequests ==
  [testId : {1}, userEmail : {EmailA}, userName : {"u"},
   identityPhoto : {SmallImage, RawText}, timestamp : {Absent, 1}]
  \cup [testId : {1, Absent}, userEmail : {EmailA, NoEmail}, userName : {"", "u"},
        identityPhoto : {SmallImage}, timestamp : {Absent}]
  \cup [testId : {1}, userEmail : {EmailA}, userName : {"u"},
        identityPhoto : {NoPayload, Payload("dataurl", BodyLimit + 1)},
        timestamp : {Absent}]

\* :testId and :email of /admin/exam-media, as the router hands them over
MediaQueries ==
  [testId : {1}, email : {EmailA, EmailB, <<"a", "%", "4", "0", "b", ".", "c">>,
                          <<"a", "%">>}]
  \cup [testId : {2}, email : {EmailA}]

Init ==
  /\ now = 1
  /\ calls = << >>
  /\ blobs = << >>
  /\ snapshots = << >>
  /\ videos = << >>
  /\ sessions = << >>
  /\ tests = << >>
  /\ submissions = << >>
  /\ students = << >>
  /\ last = [op |-> "none"]

(***************************************************************************)
(* The scorer: the requests the model draws from.                          *)
(***************************************************************************)
SeqsUpTo(S, n) == UNION {[1..k -> S] : k \in 0..n}

\* correctAnswer of a question in the body of /admin/add-test
CorrectAnswers == {Num(0), Num(1), Num(2), Undefined}

AddTestRequests ==
  [title : {"t"}, subject : {"s"}, isArray : {TRUE},
   questions : SeqsUpTo({Question(a) : a \in CorrectAnswers}, MaxQuestions)]
  \cup [title : {"", "t"}, subject : {"", "s"}, isArray : BOOLEAN,
        questions : {<<Question(Num(0))>>}]

\* answers[i] in the body of /api/submitTest
AnswerValues == {Num(0), Num(1), Str(1), Text}
AnswerMaps == UNION {[D -> AnswerValues] : D \in SUBSET (0..(MaxQuestions - 1))}

SubmitTestRequests ==
  [testId : {1}, given : {TRUE}, answers : AnswerMaps, userEmail : {EmailA},
   userName : {"u"}]
  \cup [testId : {Absent, 1, 2}, given : BOOLEAN, answers : {<< >>},
        userEmail : {EmailA, NoEmail}, userName : {"", "u"}]

Ingestion ==
  \/ \E r \in SnapshotRequests :
       UploadSnapshotRequest(r.testId, r.userEmail, r.payload, r.timestamp)
  \/ \E r \in ChunkRequests :
       UploadVideoChunkRequest(r.testId, r.userEmail, r.chunkIndex, r.timestamp, r.payload)
  \/ \E r \in VideoRequests :
       UploadVideoRequest(r.testId, r.userEmail, r.payload, r.timestamp)

Progress ==
  \/ \E c \in 1..Len(calls), ok \in BOOLEAN : CloudinaryCompletes(c, ok)
  \/ \E c \in 1..Len(calls) : HandlerResumes(c)
  \/ \E c \in 1..Len(calls), ok \in BOOLEAN : SaveCompletes(c, ok)

\* The evidence pipeline: ingestion and the media query.
Next ==
  \/ Ingestion
  \/ Progress
  \/ \E q \in MediaQueries : GetExamMedia(q.testId, q.email)
  \/ Tick

Spec == Init /\ [][Next]_vars

\* The bodies of /api/uploadVideoChunk that differ in chunkIndex only, in the
\* pair, or carry no chunkIndex.
ChunkLogRequests ==
  [testId : {1}, userEmail : {EmailA}, chunkIndex : {0, 1, 2}, timestamp : {Absent},
   payload : {SmallFile}]
  \cup [testId : {1}, userEmail : {EmailB}, chunkIndex : {0, Absent},
        timestamp : {Absent}, payload : {SmallFile}]

\* The two routes that store Video documents: chunks and whole videos arrive,
\* upload and are saved as time passes.
NextChunks ==
  \/ \E r \in ChunkLogRequests :
       UploadVideoChunkRequest(r.testId, r.userEmail, r.chunkIndex, r.timestamp, r.payload)
  \/ UploadVideoRequest(1, EmailA, SmallVideo, Absent)
  \/ Progress
  \/ Tick

SpecChunks == Init /\ [][NextChunks]_vars

\* The scorer: test management and submission.
NextScore ==
  \/ \E r \in AddTestRequests, saveOk \in BOOLEAN :
       AddTest(r.title, r.subject, r.isArray, r.questions, saveOk)
  \/ \E r \in SubmitTestRequests, saveOk \in BOOLEAN :
       SubmitTest(r.testId, r.given, r.answers, r.userEmail, r.userName, saveOk)
  \/ \E id \in {1, 2}, declared \in BOOLEAN : DeclareResults(id, declared)

SpecScore == Init /\ [][NextScore]_vars

\* The whole server: every route that writes a collection, and the media
\* query, each on a few requests.
NextServer ==
  \/ UploadSnapshotRequest(1, EmailA, SmallImage, Absent)
  \/ UploadVideoChunkRequest(1, EmailA, 0, Absent, SmallFile)
  \/ UploadVideoRequest(1, EmailA, SmallVideo, Absent)
  \/ Progress
  \/ \E userName \in {"", "u"}, cloudOk \in BOOLEAN, saveOk \in BOOLEAN :
       StartExam(1, EmailA, userName, SmallImage, 1, cloudOk, saveOk)
  \/ GetExamMedia(1, EmailA)
  \/ \E saveOk \in BOOLEAN : AddTest("t", "s", TRUE, <<Question(Num(0))>>, saveOk)
  \/ \E saveOk \in BOOLEAN :
       SubmitTest(1, TRUE, [i \in {0} |-> Num(0)], EmailA, "u", saveOk)
  \/ DeclareResults(1, TRUE)
  \/ \E cloudOk \in BOOLEAN, saveOk \in BOOLEAN :
       StudentDetails(EmailA, TRUE, SmallImage, cloudOk, saveOk)
  \/ UpdateTestsTaken(EmailA, TRUE)

SpecServer == Init /\ [][NextServer]_vars

(***************************************************************************)
(* Properties.                                                             *)
(***************************************************************************)
CallIds == 1..Len(calls)

\* The evidence documents request c has stored.
SnapshotsOf(c) == {i \in 1..Len(snapshots) : snapshots[i]._id = c}
VideosOf(c) == {i \in 1..Len(videos) : videos[i]._id = c}

\* What a media query for the pair of request c would return of c's documents.
InMediaOfPair(c) ==
  LET snaps == SortByTimestamp(FindPair(snapshots, calls[c].testId, calls[c].userEmail))
      vids  == SortByTimestamp(FindPair(videos, calls[c].testId, calls[c].userEmail))
  IN  \/ \E i \in 1..Len(snaps) : snaps[i]._id = c
      \/ \E i \in 1..Len(vids) : vids[i]._id = c

\* C1: a snapshot or video-chunk ingestion whose Cloudinary upload failed
\* answers with a failure and has stored no Snapshot or Video document, so a
\* media query for its pair returns no document of it.
C1_FailedUploadLeavesNoRecord ==
  \A c \in CallIds :
    (calls[c].kind \in {"snapshot", "chunk"} /\ calls[c].upload = "failed"
       /\ calls[c].pc = "done")
    => /\ calls[c].status # 200
       /\ ~calls[c].success
       /\ SnapshotsOf(c) = {} /\ VideosOf(c) = {}
       /\ ~InMediaOfPair(c)

\* The test a submitTest request names, and the count of positions whose
\* answer is the very value (same type, same number) of the answer key.
TestOf(testId) == tests[FindById(tests, testId)]
Matches(answers, questions) ==
  {i \in 0..(Len(questions) - 1) :
     i \in DOMAIN answers /\ answers[i] = questions[i + 1].correctAnswer}

\* C2: a successful submitTest on a test of N >= 1 questions reports and
\* persists correctCount = the number of positions whose answer strictly
\* equals the answer key, wrongCount = N - correctCount and
\* score = 100 * correctCount / N.
C2_ScoreAggregates ==
  (last.op = "submitTest" /\ last.status = 200)
  => LET questions == TestOf(last.req.testId).questions
         N   == Len(questions)
         cc  == Cardinality(Matches(last.req.answers, questions))
         sub == submissions[FindById(submissions, last.submissionId)]
     IN  N >= 1 =>
           /\ last.correctCount = cc
           /\ last.wrongCount = N - cc
           /\ last.correctCount + last.wrongCount = N
           /\ last.score.t = "number"
           /\ last.score.n * N = 100 * cc * last.score.d
           /\ sub.correctCount = cc
           /\ sub.wrongCount = N - cc
           /\ sub.totalQuestions = N
           /\ sub.score = last.score
           /\ sub.testId = last.req.testId

\* Scenario A with a numeral among the answers: two questions, one right,
\* score 50.
C2_Witness ==
  /\ last.op = "submitTest" /\ last.status = 200
  /\ Len(TestOf(last.req.testId).questions) = 2
  /\ \E i \in DOMAIN last.req.answers : last.req.answers[i].t = "string"
  /\ last.correctCount = 1 /\ last.wrongCount = 1 /\ last.score = Num(50)
  /\ Len(submissions) = 1

\* The submitTest request carries every field and names a stored test.
SubmitReaches(n) ==
  /\ last.op = "submitTest"
  /\ last.req.testId # Absent /\ last.req.given
  /\ last.req.userEmail # NoEmail /\ last.req.userName # ""
  /\ FindById(tests, last.req.testId) # 0
  /\ Len(TestOf(last.req.testId).questions) = n

\* C3: every video-chunk ingestion that succeeded has exactly one Video
\* document of its own, whose videoUrl names an asset holding the bytes of
\* that request, and no other request's document names the same asset.
C3_ChunksKeepTheirOwnBlob ==
  \A c \in CallIds :
    (calls[c].kind = "chunk" /\ calls[c].pc = "done" /\ calls[c].status = 200)
    => /\ Cardinality(VideosOf(c)) = 1
       /\ \A i \in VideosOf(c) :
            /\ videos[i].videoUrl \in DOMAIN blobs
            /\ blobs[videos[i].videoUrl] = c
            /\ \A j \in 1..Len(videos) :
                 videos[j].videoUrl = videos[i].videoUrl => j = i

\* C4: startExam with testId, userEmail, userName and the identity photo
\* present and the photo uploaded answers with success and the sessionId of
\* an ExamSession document that holds the request's test, student, photo url
\* and timestamp.
C4_StartExamPersistsSession ==
  (/\ last.op = "startExam"
   /\ last.req.testId # Absent /\ last.req.userEmail # NoEmail
   /\ last.req.userName # "" /\ last.req.identityPhoto.form # "none"
   /\ ~BodyTooLarge(last.req.identityPhoto)
   /\ last.photoUrl # NullUrl)
  => /\ last.success /\ last.status = 200
     /\ \E i \in 1..Len(sessions) :
          /\ sessions[i]._id = last.sessionId
          /\ sessions[i].testId = last.req.testId
          /\ sessions[i].userEmail = last.req.userEmail
          /\ sessions[i].userName = last.req.userName
          /\ sessions[i].identityPhoto = last.photoUrl

\* C5: submitTest on a stored test without questions answers with a failure,
\* never with a success, and no Submission of a test without questions is
\* ever persisted.
C5_ZeroQuestionsFails ==
  /\ SubmitReaches(0) => (~last.success /\ last.status >= 400)
  /\ \A k \in 1..Len(submissions) :
       /\ Len(TestOf(submissions[k].testId).questions) >= 1
       /\ submissions[k].score.t = "number"

C5_Witness ==
  /\ SubmitReaches(0)
  /\ last.status = 500
  /\ submissions = << >>

\* C6: in a successful submitTest every question position the answers
\* mapping has no entry for is graded isCorrect = FALSE in the persisted
\* Submission and is not among the positions correctCount counts, whatever
\* the question's correctAnswer.
C6_MissingAnswerIsWrong ==
  (last.op = "submitTest" /\ last.status = 200)
  => LET questions == TestOf(last.req.testId).questions
         sub == submissions[FindById(submissions, last.submissionId)]
         missing == {i \in 0..(Len(questions) - 1) : i \notin DOMAIN last.req.answers}
     IN  /\ \A i \in missing : ~sub.answers[i + 1].isCorrect
         /\ sub.correctCount <= Len(questions) - Cardinality(missing)
         /\ sub.correctCount =
              Cardinality({i \in 0..(Len(questions) - 1) :
                             i \notin missing /\ sub.answers[i + 1].isCorrect})

\* A position without an answer on a question whose correctAnswer is no
\* index of its options, next to an answered position graded right.
C6_Witness ==
  /\ last.op = "submitTest" /\ last.status = 200
  /\ LET questions == TestOf(last.req.testId).questions
     IN  /\ Len(questions) = 2
         /\ 0 \in DOMAIN last.req.answers /\ 1 \notin DOMAIN last.req.answers
         /\ questions[2].correctAnswer = Num(2)
         /\ last.correctCount = 1

Ascending(docs) ==
  \A i \in 1..Len(docs), j \in 1..Len(docs) :
    i < j => docs[i].timestamp <= docs[j].timestamp

\* C7: a media query answers with the snapshots, and with the video urls,
\* in non-decreasing order of the documents' timestamps.
C7_MediaSortedByTimestamp ==
  (last.op = "examMedia" /\ last.status = 200)
  => /\ Ascending(last.snapshots)
     /\ Ascending(last.videoDocs)
     /\ Len(last.videos) = Len(last.videoDocs)
     /\ \A i \in 1..Len(last.videoDocs) : last.videos[i] = last.videoDocs[i].videoUrl

\* Two documents of the pair stored against the order of their timestamps,
\* returned in the order of their timestamps.
C7_Witness ==
  /\ last.op = "examMedia" /\ last.status = 200
  /\ \/ /\ Len(snapshots) = 2
        /\ snapshots[1].timestamp > snapshots[2].timestamp
        /\ last.snapshots = <<snapshots[2], snapshots[1]>>
     \/ /\ Len(videos) = 2
        /\ videos[1].timestamp > videos[2].timestamp
        /\ last.videos = <<videos[2].videoUrl, videos[1].videoUrl>>

\* C8: on both video routes a video larger than the 10 MiB ceiling is
\* rejected: the request ends with a failure, nothing is uploaded and no
\* Video document is stored.
C8_VideoSizeBounded ==
  \A c \in CallIds :
    (calls[c].kind \in {"chunk", "video"} /\ calls[c].payload.size > FileSizeLimit)
    => /\ calls[c].pc = "done"
       /\ calls[c].status >= 400
       /\ calls[c].upload = "none"
       /\ VideosOf(c) = {}
       /\ \A p \in DOMAIN blobs : blobs[p] # c

\* C9: while the metadata write of an ingestion is in flight, and once its
\* document is stored, the Cloudinary upload of that request is no longer in
\* flight: the upload has settled before the write began.
C9_UploadBeforeMetadata ==
  \A c \in CallIds :
    (calls[c].pc = "saving" \/ SnapshotsOf(c) # {} \/ VideosOf(c) # {})
    => calls[c].upload # "inflight"

\* One request writes its metadata after its upload, while the upload of
\* another is still in flight.
C9_Witness ==
  \E c \in CallIds, e \in CallIds :
    /\ calls[c].pc = "saving" /\ calls[c].upload = "ok"
    /\ calls[e].pc = "uploading" /\ calls[e].upload = "inflight"

IsPrefix(s, t) == Len(s) <= Len(t) /\ \A i \in 1..Len(s) : t[i] = s[i]

\* C10: no step of the server modifies or removes a stored Snapshot or Video
\* document: each collection stays a prefix of its next value.
C10_EvidenceAppendOnly ==
  [][IsPrefix(snapshots, snapshots') /\ IsPrefix(videos, videos')]_vars

\* Evidence of both kinds is stored and has been queried, after a test was
\* submitted and its results declared.
C10_Witness ==
  /\ snapshots # << >> /\ videos # << >>
  /\ last.op = "examMedia" /\ last.status = 200
  /\ Len(last.snapshots) = 1 /\ Len(last.videos) = 1
  /\ submissions # << >>
  /\ tests # << >> /\ tests[1].resultsDeclared

\* The fields of the request of call c: the body and the file as the handler
\* of /api/uploadVideoChunk reads them.
RequestOf(c) ==
  [testId |-> calls[c].testId, userEmail |-> calls[c].userEmail,
   chunkIndex |-> calls[c].chunkIndex, timestamp |-> calls[c].timestamp,
   payload |-> calls[c].payload]

\* A video ingestion whose upload and metadata write succeeded.
Succeeded(c) ==
  calls[c].upload = "ok" /\ calls[c].pc = "done" /\ calls[c].status = 200

\* The chunk ingestions of a pair that succeeded, and its video ingestions
\* of either route that succeeded.
SucceededChunks(testId, userEmail) ==
  {c \in CallIds : /\ calls[c].kind = "chunk"
                   /\ calls[c].testId = testId /\ calls[c].userEmail = userEmail
                   /\ Succeeded(c)}
SucceededVideos(testId, userEmail) ==
  {c \in CallIds : /\ calls[c].kind \in {"chunk", "video"}
                   /\ calls[c].testId = testId /\ calls[c].userEmail = userEmail
                   /\ Succeeded(c)}

Pairs == {<<calls[c].testId, calls[c].userEmail>> : c \in CallIds}

\* C11: chunkIndex neither orders nor deduplicates.  Every video-chunk
\* ingestion whose upload and metadata write succeeded has stored exactly one
\* Video document of its own, carrying its chunkIndex, whatever chunkIndex
\* the other calls carried; an ingestion that did not succeed has stored
\* none; so a pair with k successful chunk ingestions has exactly k Video
\* documents of chunks in the collection, and as many Video documents in all
\* as it has successful video ingestions (/api/uploadVideo stores Video
\* documents of the pair as well).
C11_ChunkIndexNoDedup ==
  /\ \A c \in CallIds :
       calls[c].kind = "chunk" =>
         IF Succeeded(c)
           THEN /\ Cardinality(VideosOf(c)) = 1
                /\ \A i \in VideosOf(c) :
                     /\ videos[i].chunkIndex = calls[c].chunkIndex
                     /\ videos[i].testId = calls[c].testId
                     /\ videos[i].userEmail = calls[c].userEmail
           ELSE VideosOf(c) = {}
  /\ \A pair \in Pairs :
       LET docs == FindPair(videos, pair[1], pair[2])
       IN  /\ Cardinality({i \in 1..Len(docs) : calls[docs[i]._id].kind = "chunk"})
                = Cardinality(SucceededChunks(pair[1], pair[2]))
           /\ Len(docs) = Cardinality(SucceededVideos(pair[1], pair[2]))

\* A chunk is resubmitted unchanged within the same millisecond: both
\* ingestions succeed, one asset holds the bytes of the later upload, and
\* the pair has two Video documents with the same chunkIndex.
C11_Witness ==
  \E c \in CallIds, e \in CallIds :
    /\ c # e /\ RequestOf(c) = RequestOf(e)
    /\ calls[c].path = calls[e].path
    /\ {c, e} \subseteq SucceededChunks(calls[c].testId, calls[c].userEmail)
    /\ Len(FindPair(videos, calls[c].testId, calls[c].userEmail)) = 2
    /\ videos[1].chunkIndex = videos[2].chunkIndex

====
